---- MODULE Spec2Model ----
(***************************************************************************)
(* Termination-safety verifier and capability registry of permute          *)
(* (compile/src/analyze.rs, compile/src/lib.rs).                           *)
(*                                                                         *)
(* A compiled unit is a sequence of HIR owners; a DefId is the index of an *)
(* owner in that sequence, 0 is a definition of another crate.  An         *)
(* Option<T> is a sequence of length 0 (None) or 1 (Some).                 *)
(***************************************************************************)
EXTENDS Integers, Sequences, FiniteSets, TLC

VARIABLES
    unit,        \* the compiled unit handed to the analyses (read-only)
    pc,          \* position of the running analysis
    idx,         \* position of the `for` loop over items / definitions
    ret,         \* value returned by the analysis, "none" while running
    errors,      \* the violations collected so far (no_recursion: Vec<Recursion>)
    pub_types,   \* run_analyze: Vec<DefId> returned by type_ids
    sas,         \* run_analyze: the SinksAndSources value
    content,     \* run_analyze: the ProjectContent being built
    std_traits,  \* the capability traits the "std" namespace defines
    first,       \* the outcome of the first of two runs, if it has ended
    shards,      \* sharded loop check: the verdicts, in order of completion
    ctx,         \* the project context (permute_front Ctx)
    result,      \* the last call made on the context and what it returned
    main,        \* the bindings of the main file handed to LoadProjectDir::run
    load,        \* LoadProjectDir::run: its position and its error array
    cfg,         \* the binding configuration a BindingCfgIter traverses
    iter,        \* the BindingCfgIter: prefix, iter_stack, inline
    yielded      \* the items the iterator has returned so far

\* The state of the front end (permute_front), idle during the analyses.
front == <<ctx, result, main, load, cfg, iter, yielded>>

vars == <<unit, pc, idx, ret, errors, pub_types, sas, content,
          std_traits, first, shards, front>>

FrontIdle ==
    /\ ctx = <<>>
    /\ result = <<>>
    /\ main = <<>>
    /\ load = <<>>
    /\ cfg = <<>>
    /\ iter = <<>>
    /\ yielded = <<>>

(***************************************************************************)
(* Bounds                                                                  *)
(***************************************************************************)
MaxDepth == 2      \* wrapper nodes around the innermost expression
MaxItems == 2      \* owners of a unit of the loop checker
MaxFns == 3        \* functions of a unit of the recursion checker
MaxEdges == 3      \* call edges of a unit of the recursion checker
MaxMethods == 1    \* functions of such a unit that are methods of an impl
MaxPathLen == 3    \* segments of the def path of an implemented trait
MaxOwners == 3     \* owners of a unit of run_analyze
MaxInst == 2       \* generic instantiations under which a callee is called

(***************************************************************************)
(* Sequence helpers                                                        *)
(***************************************************************************)
Range(s) == {s[i] : i \in DOMAIN s}

All(s, P(_)) == \A i \in DOMAIN s : P(s[i])

\* Option::map_or(true, f)
MapOrTrue(opt, P(_)) == \A i \in DOMAIN opt : P(opt[i])

SeqsUpTo(S, n) == UNION {[1..k -> S] : k \in 0..n}

\* the subsets of S of at most k elements
RECURSIVE SubsetsUpTo(_, _)
SubsetsUpTo(S, k) ==
    IF k = 0 THEN {{}}
    ELSE LET P == SubsetsUpTo(S, k - 1) IN P \cup {p \cup {x} : p \in P, x \in S}

(***************************************************************************)
(* rustc_hir expression trees                                              *)
(***************************************************************************)
Lit == [kind |-> "Lit"]

PathExpr == [kind |-> "Path"]

EmptyBlock == [stmts |-> <<>>, expr |-> <<>>]

BlockOf(e) == [stmts |-> <<>>, expr |-> <<e>>]

\* `loop {}`
LoopExpr == [kind |-> "Loop", block |-> EmptyBlock]

\* `for pat in head { }` as lowered to HIR:
\* match IntoIterator::into_iter(head) { mut iter => loop { .. } }
ForLoop ==
    [kind |-> "Match",
     expr |-> [kind |-> "Call", f |-> PathExpr, args |-> <<PathExpr>>],
     arms |-> <<[guard |-> <<>>, body |-> LoopExpr]>>,
     src  |-> "ForLoopDesugar"]

Arm(g, b) == [guard |-> g, body |-> b]

\* Every node with `e` as one direct sub-expression, the siblings literals.
Wrappers(e) ==
   << [kind |-> "Array", exprs |-> <<e>>],
      [kind |-> "Call", f |-> e, args |-> <<>>],
      [kind |-> "Call", f |-> PathExpr, args |-> <<e>>],
      [kind |-> "MethodCall", recv |-> e, args |-> <<>>],
      [kind |-> "MethodCall", recv |-> PathExpr, args |-> <<e>>],
      [kind |-> "Tup", exprs |-> <<Lit, e>>],
      [kind |-> "Binary", lhs |-> e, rhs |-> Lit],
      [kind |-> "Binary", lhs |-> Lit, rhs |-> e],
      [kind |-> "Unary", expr |-> e],
      [kind |-> "Cast", expr |-> e],
      [kind |-> "Type", expr |-> e],
      [kind |-> "DropTemps", expr |-> e],
      [kind |-> "Let", init |-> e],
      [kind |-> "If", cond |-> e, then |-> Lit, other |-> <<>>],
      [kind |-> "If", cond |-> Lit, then |-> e, other |-> <<>>],
      [kind |-> "If", cond |-> Lit, then |-> Lit, other |-> <<e>>],
      [kind |-> "Match", expr |-> e, arms |-> <<>>, src |-> "Normal"],
      [kind |-> "Match", expr |-> Lit, arms |-> <<Arm(<<>>, e)>>, src |-> "Normal"],
      [kind |-> "Match", expr |-> Lit, arms |-> <<Arm(<<e>>, Lit)>>, src |-> "Normal"],
      [kind |-> "Closure", constness |-> "Const", body |-> e],
      [kind |-> "Closure", constness |-> "NotConst", body |-> e],
      [kind |-> "ConstBlock", body |-> e],
      [kind |-> "Block", block |-> [stmts |-> <<[kind |-> "Expr", expr |-> e]>>, expr |-> <<>>]],
      [kind |-> "Block", block |-> [stmts |-> <<[kind |-> "Semi", expr |-> e]>>, expr |-> <<>>]],
      [kind |-> "Block", block |-> [stmts |-> <<[kind |-> "Let", init |-> <<e>>, els |-> <<>>]>>, expr |-> <<>>]],
      [kind |-> "Block", block |-> [stmts |-> <<[kind |-> "Let", init |-> <<Lit>>, els |-> <<BlockOf(e)>>]>>, expr |-> <<>>]],
      [kind |-> "Block", block |-> BlockOf(e)],
      [kind |-> "Assign", lhs |-> e, rhs |-> Lit],
      [kind |-> "Assign", lhs |-> PathExpr, rhs |-> e],
      [kind |-> "AssignOp", lhs |-> PathExpr, rhs |-> e],
      [kind |-> "Field", expr |-> e],
      [kind |-> "Index", lhs |-> e, rhs |-> Lit],
      [kind |-> "Index", lhs |-> PathExpr, rhs |-> e],
      [kind |-> "AddrOf", expr |-> e],
      [kind |-> "Break", expr |-> <<e>>],
      [kind |-> "Ret", expr |-> <<e>>],
      [kind |-> "Become", expr |-> e],
      [kind |-> "InlineAsm", operands |-> <<e>>],
      [kind |-> "Struct", fields |-> <<e>>, base |-> <<>>],
      [kind |-> "Struct", fields |-> <<>>, base |-> <<e>>],
      [kind |-> "Repeat", expr |-> e],
      [kind |-> "Yield", expr |-> e] >>

NumWrappers == Len(Wrappers(Lit))

Leaves == {Lit, LoopExpr, ForLoop}

\* the leaf wrapped by the nodes that `path` selects, outermost first
RECURSIVE Build(_, _)
Build(path, leaf) ==
    IF path = <<>> THEN leaf
    ELSE Wrappers(Build(Tail(path), leaf))[Head(path)]

(***************************************************************************)
(* no_forbidden_loops (analyze.rs 34-216)                                  *)
(***************************************************************************)
RECURSIVE check_expr(_), check_stmt(_), check_block(_)

check_body(body) == check_expr(body)

check_expr(expr) ==
    CASE expr.kind = "ConstBlock" -> TRUE
      [] expr.kind = "Array"      -> All(expr.exprs, check_expr)
      [] expr.kind = "Call"       -> All(expr.args, check_expr)
      [] expr.kind = "MethodCall" -> check_expr(expr.recv) /\ All(expr.args, check_expr)
      [] expr.kind = "Tup"        -> All(expr.exprs, check_expr)
      [] expr.kind = "Binary"     -> check_expr(expr.lhs) /\ check_expr(expr.rhs)
      [] expr.kind = "Unary"      -> check_expr(expr.expr)
      [] expr.kind = "Lit"        -> TRUE
      [] expr.kind = "Cast"       -> TRUE
      [] expr.kind = "Type"       -> TRUE
      [] expr.kind = "DropTemps"  -> check_expr(expr.expr)
      [] expr.kind = "Let"        -> check_expr(expr.init)
      [] expr.kind = "If"         ->
            /\ check_expr(expr.cond)
            /\ check_expr(expr.then)
            /\ MapOrTrue(expr.other, check_expr)
      [] expr.kind = "Loop"       -> FALSE
      [] expr.kind = "Match"      ->
            IF expr.src = "ForLoopDesugar" THEN FALSE
            ELSE IF ~check_expr(expr.expr) THEN FALSE
            ELSE \A i \in DOMAIN expr.arms : check_expr(expr.arms[i].body)
      [] expr.kind = "Closure"    ->
            IF expr.constness = "Const" THEN TRUE ELSE check_body(expr.body)
      [] expr.kind = "Block"      -> check_block(expr.block)
      [] expr.kind = "Assign"     -> check_expr(expr.lhs) /\ check_expr(expr.rhs)
      [] expr.kind = "AssignOp"   -> check_expr(expr.lhs) /\ check_expr(expr.rhs)
      [] expr.kind = "Field"      -> check_expr(expr.expr)
      [] expr.kind = "Index"      -> check_expr(expr.lhs) /\ check_expr(expr.rhs)
      [] expr.kind = "Path"       -> TRUE
      [] expr.kind = "AddrOf"     -> check_expr(expr.expr)
      [] expr.kind = "Break"      -> MapOrTrue(expr.expr, check_expr)
      [] expr.kind = "Continue"   -> TRUE
      [] expr.kind = "Ret"        -> MapOrTrue(expr.expr, check_expr)
      [] expr.kind = "Become"     -> check_expr(expr.expr)
      [] expr.kind = "InlineAsm"  -> TRUE
      [] expr.kind = "OffsetOf"   -> TRUE
      [] expr.kind = "Struct"     ->
            All(expr.fields, check_expr) /\ MapOrTrue(expr.base, check_expr)
      [] expr.kind = "Repeat"     -> check_expr(expr.expr)
      [] expr.kind = "Yield"      -> check_expr(expr.expr)
      [] expr.kind = "Err"        -> TRUE

check_stmt(stmt) ==
    CASE stmt.kind = "Item" -> TRUE
      [] stmt.kind = "Expr" -> check_expr(stmt.expr)
      [] stmt.kind = "Semi" -> check_expr(stmt.expr)
      [] stmt.kind = "Let"  ->
            MapOrTrue(stmt.init, check_expr) /\ MapOrTrue(stmt.els, check_block)

check_block(block) ==
    All(block.stmts, check_stmt) /\ MapOrTrue(block.expr, check_expr)

\* The variant of check_item that also walks the body of a const fn.
check_item_walks_const(item) ==
    IF item.kind = "Fn" THEN check_body(item.body) ELSE TRUE

check_item(item) ==
    IF item.kind = "Fn"
    THEN IF item.constness = "Const" THEN TRUE ELSE check_body(item.body)
    ELSE TRUE

(***************************************************************************)
(* The compiled unit: rustc's owners.  `node` is the OwnerNode variant,    *)
(* `kind` the ItemKind (or ImplItemKind) of the owner.                     *)
(***************************************************************************)
FnItem(c, b, cs) ==
    [node |-> "Item", kind |-> "Fn", constness |-> c, body |-> b, callees |-> cs]

\* the effective visibility of an item: Level::Direct, Level::Reexported, or
\* not visible from outside the crate
Visibilities == {"Direct", "Reexported", "Private"}

StructItem(vis) == [node |-> "Item", kind |-> "Struct", vis |-> vis]

EnumItem(vis) == [node |-> "Item", kind |-> "Enum", vis |-> vis]

ImplBlock(tr) == [node |-> "Item", kind |-> "Impl", of_trait |-> tr]

\* A method of an impl block: an OwnerNode::ImplItem, not an Item.
ImplItemFn(c, b, cs) ==
    [node |-> "ImplItem", kind |-> "Fn", constness |-> c, body |-> b, callees |-> cs]

Constness == {"Const", "NotConst"}

\* Map::items(): the ItemIds of the free items, in order; methods of impl
\* blocks are ImplItems and are not among them.
RECURSIVE free_items(_, _)
free_items(u, i) ==
    IF i > Len(u) THEN <<>>
    ELSE (IF u[i].node = "Item" THEN <<i>> ELSE <<>>) \o free_items(u, i + 1)

items(u) == free_items(u, 1)

(***************************************************************************)
(* Units handed to the loop checker                                        *)
(***************************************************************************)
\* a body that declares the nested item `k`: { fn k() { .. } }
NestedItemBody(k) ==
    [kind |-> "Block",
     block |-> [stmts |-> <<[kind |-> "Item", id |-> k]>>, expr |-> <<>>]]

LoopOwners ==
    {FnItem(c, b, <<>>) :
        c \in Constness,
        b \in Leaves \cup {NestedItemBody(k) : k \in 1..MaxItems}}
    \cup {ImplItemFn(c, b, <<>>) : c \in Constness, b \in Leaves}
    \cup {StructItem("Direct"), ImplBlock(<<>>)}

\* a nested item is another fn item of the unit; a method has its impl block
WellFormedUnit(u) ==
    /\ \A i \in DOMAIN u :
          /\ u[i].kind = "Fn" => \A k \in 1..MaxItems :
                u[i].body = NestedItemBody(k) =>
                    k \in DOMAIN u /\ k # i /\ u[k].node = "Item" /\ u[k].kind = "Fn"
          /\ u[i].node = "ImplItem" => \E j \in DOMAIN u : u[j].kind = "Impl"

\* up to MaxItems owners with small bodies
WideUnits == {u \in SeqsUpTo(LoopOwners, MaxItems) : WellFormedUnit(u)}

NoSas == [sinks |-> <<>>, sources |-> <<>>]

NoContent == [pub_types |-> <<>>, sinks |-> <<>>, sources |-> <<>>]

\* either one fn item whose body is up to MaxDepth nodes around a leaf, or
\* up to MaxItems owners with small bodies
InitLoops ==
    /\ \/ \E c \in Constness, l \in Leaves,
             path \in SeqsUpTo(1..NumWrappers, MaxDepth) :
                unit = <<FnItem(c, Build(path, l), <<>>)>>
       \/ unit \in WideUnits
    /\ pc = "loops"
    /\ idx = 1
    /\ ret = "none"
    /\ errors = <<>>
    /\ pub_types = <<>>
    /\ sas = NoSas
    /\ content = NoContent
    /\ std_traits = {}
    /\ first = <<>>
    /\ shards = <<>>
    /\ FrontIdle

\* for item_id in items { if !check_item(..) { return false; } }
LoopsItemOk ==
    /\ pc = "loops"
    /\ idx <= Len(items(unit))
    /\ check_item(unit[items(unit)[idx]])
    /\ idx' = idx + 1
    /\ UNCHANGED <<front, unit, std_traits, first, shards, pc, ret, errors, pub_types, sas, content>>

LoopsItemFail ==
    /\ pc = "loops"
    /\ idx <= Len(items(unit))
    /\ ~check_item(unit[items(unit)[idx]])
    /\ ret' = "false"
    /\ pc' = "loops_ret"
    /\ UNCHANGED <<front, unit, std_traits, first, shards, idx, errors, pub_types, sas, content>>

\* the loop ran out of items: `true`
LoopsReturnTrue ==
    /\ pc = "loops"
    /\ idx > Len(items(unit))
    /\ ret' = "true"
    /\ pc' = "loops_ret"
    /\ UNCHANGED <<front, unit, std_traits, first, shards, idx, errors, pub_types, sas, content>>

NextLoops == LoopsItemOk \/ LoopsItemFail \/ LoopsReturnTrue

SpecLoops == InitLoops /\ [][NextLoops]_vars

(***************************************************************************)
(* The expression tree as rustc_hir defines it: every direct               *)
(* sub-expression of a node, those check_expr does not visit included.     *)
(***************************************************************************)
RECURSIVE BlockExprs(_)
BlockExprs(b) ==
    Range(b.expr) \cup
    UNION { CASE s.kind = "Item" -> {}
              [] s.kind \in {"Expr", "Semi"} -> {s.expr}
              [] s.kind = "Let" ->
                    Range(s.init) \cup UNION {BlockExprs(bl) : bl \in Range(s.els)}
            : s \in Range(b.stmts) }

SubExprs(e) ==
    CASE e.kind \in {"Lit", "Path", "Continue", "OffsetOf", "Err"} -> {}
      [] e.kind \in {"Array", "Tup"} -> Range(e.exprs)
      [] e.kind = "Call" -> {e.f} \cup Range(e.args)
      [] e.kind = "MethodCall" -> {e.recv} \cup Range(e.args)
      [] e.kind \in {"Binary", "Assign", "AssignOp", "Index"} -> {e.lhs, e.rhs}
      [] e.kind \in {"Unary", "Cast", "Type", "DropTemps", "Field", "AddrOf",
                     "Become", "Repeat", "Yield"} -> {e.expr}
      [] e.kind = "Let" -> {e.init}
      [] e.kind = "If" -> {e.cond, e.then} \cup Range(e.other)
      [] e.kind \in {"Loop", "Block"} -> BlockExprs(e.block)
      [] e.kind = "Match" ->
            {e.expr} \cup {e.arms[i].body : i \in DOMAIN e.arms}
                     \cup UNION {Range(e.arms[i].guard) : i \in DOMAIN e.arms}
      [] e.kind \in {"Closure", "ConstBlock"} -> {e.body}
      [] e.kind \in {"Break", "Ret"} -> Range(e.expr)
      [] e.kind = "InlineAsm" -> Range(e.operands)
      [] e.kind = "Struct" -> Range(e.fields) \cup Range(e.base)

IsLoopNode(e) == e.kind = "Loop"

IsForMatch(e) == e.kind = "Match" /\ e.src = "ForLoopDesugar"

IsConstContext(e) ==
    e.kind = "ConstBlock" \/ (e.kind = "Closure" /\ e.constness = "Const")

\* a loop node at any depth, not inside a const block or const closure
RECURSIVE HasLoopOutsideConst(_)
HasLoopOutsideConst(e) ==
    \/ IsLoopNode(e)
    \/ ~IsConstContext(e) /\ \E c \in SubExprs(e) : HasLoopOutsideConst(c)

\* a desugared `for` at any depth, not inside a const block or const closure
RECURSIVE HasForOutsideConst(_)
HasForOutsideConst(e) ==
    \/ IsForMatch(e)
    \/ ~IsConstContext(e) /\ \E c \in SubExprs(e) : HasForOutsideConst(c)

\* a loop node or a desugared `for` anywhere in the tree
RECURSIVE HasAnyLoop(_)
HasAnyLoop(e) ==
    IsLoopNode(e) \/ IsForMatch(e) \/ \E c \in SubExprs(e) : HasAnyLoop(c)

NotConstFnItem(o) == o.node = "Item" /\ o.kind = "Fn" /\ o.constness = "NotConst"

\* C1: once no_forbidden_loops has returned, the result is false whenever a
\* fn item that is not const has a loop node somewhere in its body outside a
\* const block or const closure.
C1_LoopRejectedAnywhere ==
    pc = "loops_ret" =>
        ((\E i \in DOMAIN unit :
              NotConstFnItem(unit[i]) /\ HasLoopOutsideConst(unit[i].body))
         => ret = "false")

\* C2: once no_forbidden_loops has returned, the result is false whenever a
\* fn item that is not const has a match node of source ForLoopDesugar
\* somewhere in its body outside a const block or const closure.
C2_ForRejectedAnywhere ==
    pc = "loops_ret" =>
        ((\E i \in DOMAIN unit :
              NotConstFnItem(unit[i]) /\ HasForOutsideConst(unit[i].body))
         => ret = "false")

\* C3: once no_forbidden_loops has returned, the result is false whenever
\* some function of the unit that is not const (a free fn, a nested fn or a
\* method of an impl block) has a body that check_body rejects.
C3_EveryFunctionTraversed ==
    pc = "loops_ret" =>
        ((\E i \in DOMAIN unit :
              /\ unit[i].kind = "Fn"
              /\ unit[i].constness = "NotConst"
              /\ ~check_body(unit[i].body))
         => ret = "false")

\* C4: once no_forbidden_loops has returned, the result is true whenever
\* every owner whose body holds a loop node or a desugared `for` (anywhere
\* in its own expression tree) is a const fn.
C4_ConstFnExempt ==
    pc = "loops_ret" =>
        ((\A i \in DOMAIN unit :
              (unit[i].kind = "Fn" /\ HasAnyLoop(unit[i].body))
                  => unit[i].constness = "Const")
         => ret = "true")

\* a run that returned true over a const fn item whose body holds a loop
C4_Witness ==
    /\ pc = "loops_ret"
    /\ ret = "true"
    /\ \E i \in DOMAIN unit :
          /\ unit[i].node = "Item"
          /\ unit[i].kind = "Fn"
          /\ unit[i].constness = "Const"
          /\ HasAnyLoop(unit[i].body)

(***************************************************************************)
(* no_recursion (analyze.rs 224-277)                                       *)
(***************************************************************************)
\* a DefId that is not of this crate
External == 0

\* DefId::as_local
as_local(u, def_id) == IF def_id \in DOMAIN u THEN <<def_id>> ELSE <<>>

RECURSIVE impl_items(_, _)
impl_items(u, i) ==
    IF i > Len(u) THEN <<>>
    ELSE (IF u[i].node = "ImplItem" THEN <<i>> ELSE <<>>) \o impl_items(u, i + 1)

\* ModuleItems::definitions(): every owner of the crate, the free items
\* first, then the associated items of the impl blocks.
definitions(u) == free_items(u, 1) \o impl_items(u, 1)

\* tcx.mir_inliner_callees: the (DefId, GenericArgs) called by the MIR of def
mir_inliner_callees(u, def) ==
    IF u[def].kind = "Fn" THEN u[def].callees ELSE <<>>

\* the local functions that call chains starting in S pass through
RECURSIVE CallClosure(_, _)
CallClosure(u, S) ==
    LET T == S \cup {c \in DOMAIN u :
                        \E d \in S : \E i \in DOMAIN mir_inliner_callees(u, d) :
                            mir_inliner_callees(u, d)[i].def_id = c}
    IN  IF T = S THEN S ELSE CallClosure(u, T)

\* tcx.mir_callgraph_reachable((root, target)): whether `root` (transitively)
\* calls `target`.  The query asserts that root and target differ ("you
\* should not call mir_callgraph_reachable on immediate self recursion").
mir_callgraph_reachable(u, root, target) ==
    IF root = target THEN "assert_failed"
    ELSE IF \E d \in CallClosure(u, {root}) :
               \E i \in DOMAIN mir_inliner_callees(u, d) :
                   mir_inliner_callees(u, d)[i].def_id = target
         THEN "true"
         ELSE "false"

Recursion(callee, caller) == [callee |-> callee, caller |-> caller]

\* for (callee, gen_args) in mir_callees { .. }, from the i-th callee on;
\* the instance of the query is built from `def`, the caller.
RECURSIVE inspect_callees(_, _, _, _)
inspect_callees(u, def, i, errs) ==
    LET mir_callees == mir_inliner_callees(u, def) IN
    IF i > Len(mir_callees) THEN [panicked |-> FALSE, errors |-> errs]
    ELSE LET callee == mir_callees[i].def_id
             local  == as_local(u, callee)
         IN  IF local = <<>> THEN inspect_callees(u, def, i + 1, errs)
             ELSE LET reachable == mir_callgraph_reachable(u, def, local[1]) IN
                  IF reachable = "assert_failed"
                  THEN [panicked |-> TRUE, errors |-> errs]
                  ELSE IF reachable = "true"
                  THEN inspect_callees(u, def, i + 1,
                                       Append(errs, Recursion(local[1], def)))
                  ELSE inspect_callees(u, def, i + 1, errs)

\* one iteration of `for def in defs`
check_def(u, def, errs) ==
    IF u[def].node # "Item"
    THEN [panicked |-> TRUE, errors |-> errs]      \* hir.expect_item(def)
    ELSE IF u[def].kind = "Fn" /\ u[def].constness # "Const"
         THEN inspect_callees(u, def, 1, errs)
         ELSE [panicked |-> FALSE, errors |-> errs]

(***************************************************************************)
(* Units handed to the recursion checker: n functions, the last m of them  *)
(* methods of an inherent impl block (owner n + 1), and a set of calls.    *)
(***************************************************************************)
\* the callees of f in ascending order of DefId
RECURSIVE CalleeSeq(_, _, _, _)
CalleeSeq(E, f, g, n) ==
    IF g > n THEN <<>>
    ELSE (IF <<f, g>> \in E THEN <<[def_id |-> g, args |-> <<>>]>> ELSE <<>>)
         \o CalleeSeq(E, f, g + 1, n)

RecUnit(n, m, consts, E) ==
    [i \in 1..(IF m > 0 THEN n + 1 ELSE n) |->
        IF i = n + 1 THEN ImplBlock(<<>>)
        ELSE IF i > n - m
             THEN ImplItemFn(consts[i], Lit, CalleeSeq(E, i, External, n))
             ELSE FnItem(consts[i], Lit, CalleeSeq(E, i, External, n))]

\* fn f() { g::<A>(); g::<B>(); }  fn g<T>() { f(); }: a caller f of
\* instantiations of a generic fn g, which may call f back
GenericUnit(c1, c2, callees, back) ==
    <<FnItem(c1, Lit, callees),
      FnItem(c2, Lit, IF back THEN <<[def_id |-> 1, args |-> <<>>]>> ELSE <<>>)>>

\* the (DefId, GenericArgs) pairs the caller of a GenericUnit may call
InstCalls ==
    {[def_id |-> g, args |-> <<k>>] :
        g \in {External} \cup DOMAIN GenericUnit("NotConst", "NotConst", <<>>, FALSE),
        k \in 1..MaxInst}

\* mir_inliner_callees holds every (DefId, GenericArgs) pair once
DistinctSeqs(S, n) ==
    {q \in SeqsUpTo(S, n) : \A i, j \in DOMAIN q : i # j => q[i] # q[j]}

\* either n functions with up to MaxEdges calls without generic arguments,
\* or a caller of up to MaxInst instantiations of generic functions
InitRecursion ==
    /\ \/ \E n \in 1..MaxFns :
          \E m \in 0..(IF n < MaxMethods THEN n ELSE MaxMethods),
             consts \in [1..n -> Constness],
             E \in SubsetsUpTo((1..n) \X (External..n), MaxEdges) :
               unit = RecUnit(n, m, consts, E)
       \/ \E c1 \in Constness, c2 \in Constness, back \in BOOLEAN,
             callees \in DistinctSeqs(InstCalls, MaxInst) :
               unit = GenericUnit(c1, c2, callees, back)
    /\ pc = "recursion"
    /\ idx = 1
    /\ ret = "none"
    /\ errors = <<>>
    /\ pub_types = <<>>
    /\ sas = NoSas
    /\ content = NoContent
    /\ std_traits = {}
    /\ first = <<>>
    /\ shards = <<>>
    /\ FrontIdle

\* an owner that is not checked: not a fn, or a const fn
RecSkipDef ==
    /\ pc = "recursion"
    /\ idx <= Len(definitions(unit))
    /\ LET def == definitions(unit)[idx] IN
          /\ unit[def].node = "Item"
          /\ ~(unit[def].kind = "Fn" /\ unit[def].constness # "Const")
          /\ ~check_def(unit, def, errors).panicked
          /\ errors' = check_def(unit, def, errors).errors
    /\ idx' = idx + 1
    /\ UNCHANGED <<front, unit, std_traits, first, shards, pc, ret, pub_types, sas, content>>

\* a fn that is not const: its callees are inspected
RecCheckFn ==
    /\ pc = "recursion"
    /\ idx <= Len(definitions(unit))
    /\ LET def == definitions(unit)[idx] IN
          /\ unit[def].node = "Item"
          /\ unit[def].kind = "Fn" /\ unit[def].constness # "Const"
          /\ ~check_def(unit, def, errors).panicked
          /\ errors' = check_def(unit, def, errors).errors
    /\ idx' = idx + 1
    /\ UNCHANGED <<front, unit, std_traits, first, shards, pc, ret, pub_types, sas, content>>

\* expect_item or the assertion of the reachability query fails
RecPanic ==
    /\ pc = "recursion"
    /\ idx <= Len(definitions(unit))
    /\ check_def(unit, definitions(unit)[idx], errors).panicked
    /\ pc' = "panic"
    /\ UNCHANGED <<front, unit, std_traits, first, shards, idx, ret, errors, pub_types, sas, content>>

RecReturnOk ==
    /\ pc = "recursion"
    /\ idx > Len(definitions(unit))
    /\ errors = <<>>
    /\ ret' = "Ok"
    /\ pc' = "recursion_ret"
    /\ UNCHANGED <<front, unit, std_traits, first, shards, idx, errors, pub_types, sas, content>>

RecReturnErr ==
    /\ pc = "recursion"
    /\ idx > Len(definitions(unit))
    /\ errors # <<>>
    /\ ret' = "Err"
    /\ pc' = "recursion_ret"
    /\ UNCHANGED <<front, unit, std_traits, first, shards, idx, errors, pub_types, sas, content>>

NextRecursion ==
    RecSkipDef \/ RecCheckFn \/ RecPanic \/ RecReturnOk \/ RecReturnErr

SpecRecursion == InitRecursion /\ [][NextRecursion]_vars

(***************************************************************************)
(* The call graph between the local functions of the unit                  *)
(***************************************************************************)
LocalFns(u) == {d \in DOMAIN u : u[d].kind = "Fn"}

Calls(u, f, g) ==
    /\ f \in LocalFns(u) /\ g \in LocalFns(u)
    /\ \E i \in DOMAIN u[f].callees : u[f].callees[i].def_id = g

RECURSIVE ReachFrom(_, _)
ReachFrom(u, S) ==
    LET T == S \cup {g \in LocalFns(u) : \E f \in S : Calls(u, f, g)}
    IN  IF T = S THEN S ELSE ReachFrom(u, T)

\* a reachability that follows one call only
CallsDirectly(u, f, g) == Calls(u, f, g)

\* g is reachable from f along one or more calls
Reachable(u, f, g) ==
    \E h \in LocalFns(u) : Calls(u, f, h) /\ g \in ReachFrom(u, {h})

\* the call f -> g lies on a cycle: f is reachable from g
CycleEdge(u, f, g) == Calls(u, f, g) /\ (f = g \/ Reachable(u, g, f))

AllFreeFns(u) == \A d \in DOMAIN u : u[d].node = "Item" /\ u[d].kind = "Fn"

\* C5: no_recursion returns, and its list holds Recursion{caller: F,
\* callee: G} for every call F -> G between local functions, F not const,
\* such that F is reachable from G.
C5_EveryCycleEdgeReported ==
    \A f \in LocalFns(unit), g \in LocalFns(unit) :
        (unit[f].constness = "NotConst" /\ CycleEdge(unit, f, g)) =>
            /\ pc # "panic"
            /\ pc = "recursion_ret" => Recursion(g, f) \in Range(errors)

\* C6: no_recursion never reports a call F -> G with F not reachable from G,
\* and returns Ok(()) when no call between local functions lies on a cycle.
C6_NoFalsePositive ==
    pc = "recursion_ret" =>
        /\ \A i \in DOMAIN errors :
              CycleEdge(unit, errors[i].caller, errors[i].callee)
        /\ (\A f \in LocalFns(unit), g \in LocalFns(unit) : ~CycleEdge(unit, f, g))
              => ret = "Ok"

\* C7: when the only call on a cycle is D -> D, D a free fn that is not
\* const, no_recursion returns Err with the one violation {D, D}.
C7_SelfRecursionReported ==
    \A d \in LocalFns(unit) :
        (/\ AllFreeFns(unit)
         /\ unit[d].constness = "NotConst"
         /\ \A f \in LocalFns(unit), g \in LocalFns(unit) :
               CycleEdge(unit, f, g) <=> (f = d /\ g = d))
        => /\ pc # "panic"
           /\ pc = "recursion_ret" =>
                 ret = "Err" /\ errors = <<Recursion(d, d)>>

(***************************************************************************)
(* Capability registry (analyze.rs 14-28, 279-421)                         *)
(***************************************************************************)
STD_NAME == "permute"

SINK_TRAIT_PATH == <<STD_NAME, "Sink">>

SOURCE_TRAIT_PATH == <<STD_NAME, "Source">>

\* Iterator::zip stops at the end of the shorter sequence
Zip(a, b) ==
    [i \in 1..(IF Len(a) < Len(b) THEN Len(a) ELSE Len(b)) |-> <<a[i], b[i]>>]

\* A DefPath is the sequence of the get_opt_name() of its segments.
is_sink_trait_path(path) ==
    LET pairs == Zip(path, SINK_TRAIT_PATH)
    IN  \A i \in DOMAIN pairs : pairs[i][1] = <<pairs[i][2]>>

is_source_trait_path(path) ==
    LET pairs == Zip(path, SOURCE_TRAIT_PATH)
    IN  \A i \in DOMAIN pairs : pairs[i][1] = <<pairs[i][2]>>

\* the trait reference of an impl block: its DefId, when it resolves, is
\* represented by the def path of the trait
TraitRef(path) == <<[trait_def_id |-> <<path>>]>>

UnresolvedTraitRef == <<[trait_def_id |-> <<>>]>>

is_impl_sink_trait(u, item_id) ==
    IF u[item_id].kind = "Impl"
          /\ u[item_id].of_trait # <<>>
          /\ u[item_id].of_trait[1].trait_def_id # <<>>
    THEN is_sink_trait_path(u[item_id].of_trait[1].trait_def_id[1])
    ELSE FALSE

is_impl_source_trait(u, item_id) ==
    IF u[item_id].kind = "Impl"
          /\ u[item_id].of_trait # <<>>
          /\ u[item_id].of_trait[1].trait_def_id # <<>>
    THEN is_source_trait_path(u[item_id].of_trait[1].trait_def_id[1])
    ELSE FALSE

is_adt(item) == item.kind \in {"Struct", "Enum", "Union"}

\* EffectiveVisibilities::is_directly_public
is_directly_public(item) == item.vis = "Direct"

\* type_ids: the directly public ADT items, in item order
RECURSIVE type_ids_from(_, _)
type_ids_from(u, i) ==
    IF i > Len(items(u)) THEN <<>>
    ELSE LET id == items(u)[i] IN
         (IF is_adt(u[id]) /\ is_directly_public(u[id]) THEN <<id>> ELSE <<>>)
         \o type_ids_from(u, i + 1)

\* type_ids with a visibility test that accepts re-exported items
type_ids_any_public(u) ==
    SelectSeq(items(u), LAMBDA id : is_adt(u[id]) /\ u[id].vis # "Private")

type_ids(u) == type_ids_from(u, 1)

\* impls: the impl blocks among the free items
RECURSIVE impls_from(_, _)
impls_from(u, i) ==
    IF i > Len(items(u)) THEN <<>>
    ELSE LET id == items(u)[i] IN
         (IF u[id].kind = "Impl" THEN <<id>> ELSE <<>>) \o impls_from(u, i + 1)

impls(u) == impls_from(u, 1)

\* SinksAndSources::collect_from, from the i-th impl on
RECURSIVE collect_from_impl(_, _, _)
collect_from_impl(u, i, acc) ==
    IF i > Len(impls(u)) THEN acc
    ELSE LET item_id == impls(u)[i] IN
         IF is_impl_sink_trait(u, item_id)
         THEN collect_from_impl(u, i + 1,
                  [acc EXCEPT !.sinks = Append(@, item_id)])
         ELSE IF is_impl_source_trait(u, item_id)
         THEN collect_from_impl(u, i + 1,
                  [acc EXCEPT !.sources = Append(@, item_id)])
         ELSE collect_from_impl(u, i + 1, acc)

collect_from(u) == collect_from_impl(u, 1, [sinks |-> <<>>, sources |-> <<>>])

contains(slice, x) == \E i \in DOMAIN slice : slice[i] = x

\* Vec::retain(|x| !slice.contains(x))
RECURSIVE retain_not_in(_, _)
retain_not_in(v, slice) ==
    IF v = <<>> THEN <<>>
    ELSE (IF ~contains(slice, Head(v)) THEN <<Head(v)>> ELSE <<>>)
         \o retain_not_in(Tail(v), slice)

\* retain(|x| slice.contains(x)) in the place of the negated test
filter_keeps_slice(self, slice) ==
    [sinks   |-> SelectSeq(self.sinks, LAMBDA x : contains(slice, x)),
     sources |-> SelectSeq(self.sources, LAMBDA x : contains(slice, x))]

filter_not_in(self, slice) ==
    [sinks   |-> retain_not_in(self.sinks, slice),
     sources |-> retain_not_in(self.sources, slice)]

\* Iterator::position: Some(index from 0) of the first equal element
position(v, id) ==
    IF contains(v, id)
    THEN <<(CHOOSE i \in DOMAIN v : v[i] = id /\ \A j \in 1..(i - 1) : v[j] # id) - 1>>
    ELSE <<>>

(***************************************************************************)
(* run_analyze (lib.rs 342-420)                                            *)
(***************************************************************************)
SegNames == {STD_NAME, "Sink", "Source", "other"}

\* get_opt_name of a segment: None for a segment without a name
Segments == {<<>>} \cup {<<n>> : n \in SegNames}

AnalyzeOwners ==
    { StructItem("Direct"), StructItem("Private"), StructItem("Reexported"),
      EnumItem("Direct"),
      ImplBlock(<<>>), ImplBlock(UnresolvedTraitRef),
      ImplBlock(TraitRef(<<<<STD_NAME>>, <<"Sink">>>>)),
      ImplBlock(TraitRef(<<<<STD_NAME>>, <<"Source">>>>)),
      FnItem("NotConst", Lit, <<>>),
      FnItem("NotConst", LoopExpr, <<>>),
      FnItem("NotConst", Lit, <<[def_id |-> 1, args |-> <<>>]>>) }

\* a local callee is a fn of the unit
CalleesAreFns(u) ==
    \A i \in DOMAIN u : u[i].kind = "Fn" =>
        \A k \in DOMAIN u[i].callees :
            LET c == u[i].callees[k].def_id
            IN  c # External => c \in DOMAIN u /\ u[c].kind = "Fn"

\* the def path of the trait an impl block implements, if there is one
TraitPathOf(o) ==
    IF o.kind = "Impl" /\ o.of_trait # <<>> /\ o.of_trait[1].trait_def_id # <<>>
    THEN o.of_trait[1].trait_def_id
    ELSE <<>>

Some(path) == [i \in DOMAIN path |-> <<path[i]>>]

\* the capability traits an impl block of the unit resolves to are defined
TraitsDefined(u, traits) ==
    \A i \in DOMAIN u : u[i].kind = "Impl" =>
        /\ TraitPathOf(u[i]) = <<Some(SINK_TRAIT_PATH)>> => "Sink" \in traits
        /\ TraitPathOf(u[i]) = <<Some(SOURCE_TRAIT_PATH)>> => "Source" \in traits

\* either a public struct and an impl of a trait of any def path, or up to
\* MaxOwners owners; the "std" namespace defines any of the two traits
InitAnalyze ==
    /\ \/ \E path \in SeqsUpTo(Segments, MaxPathLen) :
             unit = <<StructItem("Direct"), ImplBlock(TraitRef(path))>>
       \/ /\ unit \in SeqsUpTo(AnalyzeOwners, MaxOwners)
          /\ CalleesAreFns(unit)
    /\ std_traits \in SUBSET {"Sink", "Source"}
    /\ TraitsDefined(unit, std_traits)
    /\ pc = "type_ids"
    /\ idx = 1
    /\ ret = "none"
    /\ errors = <<>>
    /\ pub_types = <<>>
    /\ sas = NoSas
    /\ content = NoContent
    /\ first = <<>>
    /\ shards = <<>>
    /\ FrontIdle

\* let pub_types = type_ids(tcx);
AnalyzeTypeIds ==
    /\ pc = "type_ids"
    /\ pub_types' = type_ids(unit)
    /\ pc' = "collect_from"
    /\ UNCHANGED <<front, unit, std_traits, first, shards, idx, ret, errors, sas, content>>

\* a collection that fails when the namespace defines neither trait
AnalyzeCollectChecked ==
    /\ pc = "collect_from"
    /\ IF std_traits = {}
       THEN /\ ret' = "Err(CapabilitySetup)"
            /\ pc' = "setup_error"
            /\ sas' = sas
       ELSE /\ sas' = collect_from(unit)
            /\ pc' = "filter_not_in"
            /\ ret' = ret
    /\ UNCHANGED <<front, unit, std_traits, first, shards, idx, errors, pub_types, content>>

\* let mut val = SinksAndSources::collect_from(tcx);
AnalyzeCollect ==
    /\ pc = "collect_from"
    /\ sas' = collect_from(unit)
    /\ pc' = "filter_not_in"
    /\ UNCHANGED <<front, unit, std_traits, first, shards, idx, ret, errors, pub_types, content>>

\* val.filter_not_in(pub_types.as_slice());
AnalyzeFilter ==
    /\ pc = "filter_not_in"
    /\ sas' = filter_not_in(sas, pub_types)
    /\ pc' = "sinks"
    /\ UNCHANGED <<front, unit, std_traits, first, shards, idx, ret, errors, pub_types, content>>

\* sinks: every id has a position in pub_types
AnalyzeSinks ==
    /\ pc = "sinks"
    /\ \A i \in DOMAIN sas.sinks : position(pub_types, sas.sinks[i]) # <<>>
    /\ content' = [content EXCEPT !.sinks =
                      [i \in DOMAIN sas.sinks |-> position(pub_types, sas.sinks[i])[1]]]
    /\ pc' = "sources"
    /\ UNCHANGED <<front, unit, std_traits, first, shards, idx, ret, errors, pub_types, sas>>

\* sinks: unwrap_or_default() in the place of expect()
AnalyzeSinksOrDefault ==
    /\ pc = "sinks"
    /\ \E i \in DOMAIN sas.sinks : position(pub_types, sas.sinks[i]) = <<>>
    /\ content' = [content EXCEPT !.sinks =
                      [i \in DOMAIN sas.sinks |->
                          IF position(pub_types, sas.sinks[i]) = <<>> THEN 0
                          ELSE position(pub_types, sas.sinks[i])[1]]]
    /\ pc' = "sources"
    /\ UNCHANGED <<front, unit, std_traits, first, shards, idx, ret, errors, pub_types, sas>>

\* sinks: expect() on a None
AnalyzeSinksPanic ==
    /\ pc = "sinks"
    /\ \E i \in DOMAIN sas.sinks : position(pub_types, sas.sinks[i]) = <<>>
    /\ pc' = "panic"
    /\ UNCHANGED <<front, unit, std_traits, first, shards, idx, ret, errors, pub_types, sas, content>>

AnalyzeSources ==
    /\ pc = "sources"
    /\ \A i \in DOMAIN sas.sources : position(pub_types, sas.sources[i]) # <<>>
    /\ content' = [content EXCEPT !.sources =
                      [i \in DOMAIN sas.sources |-> position(pub_types, sas.sources[i])[1]]]
    /\ pc' = "return"
    /\ UNCHANGED <<front, unit, std_traits, first, shards, idx, ret, errors, pub_types, sas>>

AnalyzeSourcesPanic ==
    /\ pc = "sources"
    /\ \E i \in DOMAIN sas.sources : position(pub_types, sas.sources[i]) = <<>>
    /\ pc' = "panic"
    /\ UNCHANGED <<front, unit, std_traits, first, shards, idx, ret, errors, pub_types, sas, content>>

\* tcx.def_path(id): the path data that names the owner `id`
def_path(id) == [data |-> <<id>>]

ItemPath(segments) == [segments |-> segments]

\* pub_types.into_iter().map(|id| ItemPath { segments: def_path(id).data })
pub_type_paths(ids) == [i \in DOMAIN ids |-> ItemPath(def_path(ids[i]).data)]

\* Ok(ProjectContent { pub_types, sinks, sources })
AnalyzeReturn ==
    /\ pc = "return"
    /\ content' = [content EXCEPT !.pub_types = pub_type_paths(pub_types)]
    /\ ret' = "Ok"
    /\ pc' = "analyze_ret"
    /\ UNCHANGED <<front, unit, std_traits, first, shards, idx, errors, pub_types, sas>>

NextAnalyze ==
    \/ AnalyzeTypeIds \/ AnalyzeCollect \/ AnalyzeFilter
    \/ AnalyzeSinks \/ AnalyzeSinksPanic
    \/ AnalyzeSources \/ AnalyzeSourcesPanic
    \/ AnalyzeReturn

SpecAnalyze == InitAnalyze /\ [][NextAnalyze]_vars

(***************************************************************************)
(* The analyses as functions of the unit                                   *)
(***************************************************************************)
no_forbidden_loops(u) == \A i \in DOMAIN items(u) : check_item(u[items(u)[i]])

RECURSIVE no_recursion_from(_, _, _)
no_recursion_from(u, i, errs) ==
    IF i > Len(definitions(u)) THEN [panicked |-> FALSE, errors |-> errs]
    ELSE LET r == check_def(u, definitions(u)[i], errs)
         IN  IF r.panicked THEN r ELSE no_recursion_from(u, i + 1, r.errors)

no_recursion(u) == no_recursion_from(u, 1, <<>>)

\* C8: after collect_from, an impl block is in sinks exactly if the def path
\* of its trait is permute::Sink and in sources exactly if it is
\* permute::Source, segment for segment and of the same length.
C8_ExactPathMatch ==
    pc = "filter_not_in" =>
        \A i \in DOMAIN unit : unit[i].kind = "Impl" =>
            /\ contains(sas.sinks, i)
                  <=> TraitPathOf(unit[i]) = <<Some(SINK_TRAIT_PATH)>>
            /\ contains(sas.sources, i)
                  <=> TraitPathOf(unit[i]) = <<Some(SOURCE_TRAIT_PATH)>>

\* C9: run_analyze returns Ok only for a unit that passes both checks: with
\* a forbidden loop it returns Err(ForbiddenLoops), with recursions
\* Err(Recursions).
C9_AcceptedOnlyIfSafe ==
    pc = "analyze_ret" =>
        /\ ~no_forbidden_loops(unit) => ret = "Err(ForbiddenLoops)"
        /\ no_recursion(unit).errors # <<>> => ret = "Err(Recursions)"
        /\ ret = "Ok" => no_forbidden_loops(unit) /\ no_recursion(unit).errors = <<>>

\* every impl block of the unit implements exactly permute::Sink, exactly
\* permute::Source, or a trait whose def path differs from both in its first
\* segment, or no trait
ExactImplsOnly(u) ==
    \A i \in DOMAIN u : u[i].kind = "Impl" =>
        \/ TraitPathOf(u[i]) = <<>>
        \/ TraitPathOf(u[i]) \in {<<Some(SINK_TRAIT_PATH)>>, <<Some(SOURCE_TRAIT_PATH)>>}
        \/ /\ TraitPathOf(u[i])[1] # <<>>
           /\ TraitPathOf(u[i])[1][1] # <<STD_NAME>>

\* C10: run_analyze never panics, also for a unit with impl blocks of
\* exactly permute::Sink or permute::Source: every id left in sinks and
\* sources after filter_not_in has a position in pub_types.
C10_NoPanic ==
    ExactImplsOnly(unit) =>
        /\ pc # "panic"
        /\ pc \in {"sinks", "sources"} =>
              /\ \A i \in DOMAIN sas.sinks : contains(pub_types, sas.sinks[i])
              /\ \A i \in DOMAIN sas.sources : contains(pub_types, sas.sources[i])

(***************************************************************************)
(* The lists of run_analyze                                                *)
(***************************************************************************)
\* the ids of v that are not in slice, in the order of v
Without(v, slice) == SelectSeq(v, LAMBDA x : x \notin Range(slice))

C12_RetainsOnlySlice ==
    (pc = "sinks" /\ ExactImplsOnly(unit)) =>
        /\ \A i \in DOMAIN sas.sinks : contains(pub_types, sas.sinks[i])
        /\ \A i \in DOMAIN sas.sources : contains(pub_types, sas.sources[i])
        /\ \A x \in Range(collect_from(unit).sinks) :
              contains(pub_types, x) => contains(sas.sinks, x)
        /\ \A x \in Range(collect_from(unit).sources) :
              contains(pub_types, x) => contains(sas.sources, x)

NoImplMatches(u) ==
    \A i \in DOMAIN u : ~is_impl_sink_trait(u, i) /\ ~is_impl_source_trait(u, i)

\* C14 as stated: when the namespace defines neither Sink nor Source, the
\* collection does not return lists, the run ends with a setup error.
C14_SetupErrorWhenNoIdentity ==
    (std_traits = {} /\ ExactImplsOnly(unit)
        /\ pc \notin {"type_ids", "collect_from"})
        => ret = "Err(CapabilitySetup)"

\* C14: collect_from has no failure outcome; when no impl block matches,
\* it returns two empty lists, whether or not the namespace defines the
\* traits.
C14_CollectAlwaysReturns ==
    /\ ret # "Err(CapabilitySetup)"
    /\ pc # "setup_error"
    /\ (pc = "filter_not_in" /\ NoImplMatches(unit)) => sas = NoSas

\* the collection has returned empty lists although the namespace defines
\* neither trait
C14_Witness ==
    /\ pc = "filter_not_in"
    /\ std_traits = {}
    /\ unit # <<>>
    /\ sas = NoSas

(***************************************************************************)
(* Each analysis run twice over the same unit: the second call starts from *)
(* fresh locals, the unit is the one the first call was handed.            *)
(***************************************************************************)
\* what a run hands back to its caller
Outcome ==
    [ret |-> ret, errors |-> errors, pub_types |-> pub_types, sas |-> sas,
     content |-> content]

Returned == pc \in {"loops_ret", "recursion_ret", "analyze_ret"}

InitTwice ==
    /\ \/ /\ unit \in WideUnits
          /\ pc = "loops"
       \/ /\ \E n \in 1..MaxItems :
             \E consts \in [1..n -> Constness],
                E \in SubsetsUpTo((1..n) \X (External..n), MaxEdges) :
                  unit = RecUnit(n, 0, consts, E)
          /\ pc = "recursion"
       \/ /\ unit \in SeqsUpTo(AnalyzeOwners, MaxItems)
          /\ CalleesAreFns(unit)
          /\ pc = "type_ids"
    /\ std_traits = {"Sink", "Source"}
    /\ idx = 1
    /\ ret = "none"
    /\ errors = <<>>
    /\ pub_types = <<>>
    /\ sas = NoSas
    /\ content = NoContent
    /\ first = <<>>
    /\ shards = <<>>
    /\ FrontIdle

\* no_forbidden_loops(hir) is called again
LoopsAgain ==
    /\ pc = "loops_ret"
    /\ first = <<>>
    /\ first' = <<Outcome>>
    /\ pc' = "loops"
    /\ idx' = 1
    /\ ret' = "none"
    /\ UNCHANGED <<front, unit, std_traits, shards, errors, pub_types, sas, content>>

\* a second call that finds the violations of the first in its list
RecursionAgainKeepsErrors ==
    /\ pc = "recursion_ret"
    /\ first = <<>>
    /\ first' = <<Outcome>>
    /\ pc' = "recursion"
    /\ idx' = 1
    /\ ret' = "none"
    /\ UNCHANGED <<front, unit, std_traits, shards, errors, pub_types, sas, content>>

\* no_recursion(tcx) is called again: let mut errors = Vec::new();
RecursionAgain ==
    /\ pc = "recursion_ret"
    /\ first = <<>>
    /\ first' = <<Outcome>>
    /\ pc' = "recursion"
    /\ idx' = 1
    /\ ret' = "none"
    /\ errors' = <<>>
    /\ UNCHANGED <<front, unit, std_traits, shards, pub_types, sas, content>>

\* type_ids, collect_from and what run_analyze does with them are run again
AnalyzeAgain ==
    /\ pc = "analyze_ret"
    /\ first = <<>>
    /\ first' = <<Outcome>>
    /\ pc' = "type_ids"
    /\ ret' = "none"
    /\ pub_types' = <<>>
    /\ sas' = NoSas
    /\ content' = NoContent
    /\ UNCHANGED <<front, unit, std_traits, shards, idx, errors>>

NextTwice ==
    \/ NextLoops \/ LoopsAgain
    \/ NextRecursion \/ RecursionAgain
    \/ NextAnalyze \/ AnalyzeAgain

SpecTwice == InitTwice /\ [][NextTwice]_vars

last_violation(u) ==
    LET bad == {id \in Range(items(u)) : ~check_item(u[id])}
    IN  IF bad = {} THEN <<>>
        ELSE <<CHOOSE id \in bad : \A other \in bad : other <= id>>

\* for item_id in items { if !check_item(..) { return false; } }: the item
\* at which the sequential run returns false, if there is one
first_violation(u) ==
    LET bad == {i \in DOMAIN items(u) : ~check_item(u[items(u)[i]])}
    IN  IF bad = {} THEN <<>>
        ELSE <<items(u)[CHOOSE i \in bad : \A other \in bad : i <= other]>>

Shard(id, ok) == [item |-> id, ok |-> ok]

\* the violation of the item with the lowest DefId among the failed shards
lowest_violation(done) ==
    LET bad == {done[k].item : k \in {j \in DOMAIN done : ~done[j].ok}}
    IN  IF bad = {} THEN <<>>
        ELSE <<CHOOSE id \in bad : \A other \in bad : id <= other>>

InitShards ==
    /\ unit \in WideUnits
    /\ pc = "shards"
    /\ idx = 1
    /\ ret = "none"
    /\ errors = <<>>
    /\ pub_types = <<>>
    /\ sas = NoSas
    /\ content = NoContent
    /\ std_traits = {}
    /\ first = <<>>
    /\ shards = <<>>
    /\ FrontIdle

\* some worker completes the check of an item no shard has checked yet
ShardCheck ==
    /\ pc = "shards"
    /\ \E id \in Range(items(unit)) :
          /\ \A k \in DOMAIN shards : shards[k].item # id
          /\ shards' = Append(shards, Shard(id, check_item(unit[id])))
    /\ UNCHANGED <<front, unit, std_traits, first, pc, idx, ret, errors, pub_types,
                   sas, content>>

\* every shard has completed: the verdicts are merged
ShardMerge ==
    /\ pc = "shards"
    /\ Len(shards) = Len(items(unit))
    /\ errors' = lowest_violation(shards)
    /\ ret' = IF lowest_violation(shards) = <<>> THEN "true" ELSE "false"
    /\ pc' = "merged"
    /\ UNCHANGED <<front, unit, std_traits, first, shards, idx, pub_types, sas,
                   content>>

NextShards == ShardCheck \/ ShardMerge

SpecShards == InitShards /\ [][NextShards]_vars

ConstCallsConst(u) ==
    \A f \in LocalFns(u), g \in LocalFns(u) :
        (u[f].constness = "Const" /\ Calls(u, f, g)) => u[g].constness = "Const"

\* C17: no violation that no_recursion returns has a const fn as its caller
\* or as its callee (stated over the units in which const fns call const
\* fns only).
C17_ConstNeverInViolation ==
    (pc = "recursion_ret" /\ ConstCallsConst(unit)) =>
        \A i \in DOMAIN errors :
            /\ unit[errors[i].caller].constness # "Const"
            /\ unit[errors[i].callee].constness # "Const"

\* the fns of the unit that are not const call external functions, and
\* external functions only
OnlyExternalCalls(u) ==
    /\ \A f \in LocalFns(u) : u[f].constness # "Const" =>
          \A k \in DOMAIN u[f].callees : u[f].callees[k].def_id = External
    /\ \E f \in LocalFns(u) : u[f].constness # "Const" /\ u[f].callees # <<>>

\* C18: an external callee is never the callee of a violation, and a unit
\* whose non-const fns call external functions only makes no_recursion
\* return Ok(()).
C18_ExternalCallsDropped ==
    /\ \A i \in DOMAIN errors : errors[i].callee # External
    /\ OnlyExternalCalls(unit) =>
          /\ pc # "panic"
          /\ pc = "recursion_ret" => ret = "Ok"

\* C19: the list that no_recursion returns holds no (caller, callee) pair
\* twice (stated over the violations whose call lies on a cycle, in the
\* units in which const fns call const fns only).
C19_OneViolationPerEdge ==
    (pc = "recursion_ret" /\ ConstCallsConst(unit)) =>
        \A i, j \in DOMAIN errors :
            (/\ errors[i].caller = errors[j].caller
             /\ errors[i].callee = errors[j].callee
             /\ CycleEdge(unit, errors[i].caller, errors[i].callee)) => i = j

(***************************************************************************)
(* Strongly connected components of the call graph                         *)
(***************************************************************************)
RECURSIVE Forward(_, _)
Forward(u, S) ==
    LET T == S \cup {g \in LocalFns(u) : \E f \in S : Calls(u, f, g)}
    IN  IF T = S THEN S ELSE Forward(u, T)

RECURSIVE Backward(_, _)
Backward(u, S) ==
    LET T == S \cup {f \in LocalFns(u) : \E g \in S : Calls(u, f, g)}
    IN  IF T = S THEN S ELSE Backward(u, T)

\* the component of f: the functions that reach f and that f reaches
SccOf(u, f) == Forward(u, {f}) \cap Backward(u, {f})

\* more than one node, or one node with a self-edge
NonTrivial(u, C) == Cardinality(C) > 1 \/ \E f \in C : Calls(u, f, f)

\* the call f -> g has both endpoints in one non-trivial component
SccEdge(u, f, g) ==
    Calls(u, f, g) /\ g \in SccOf(u, f) /\ NonTrivial(u, SccOf(u, f))

\* the calls of def that the component checker flags, in call order
scc_flagged(u, def) ==
    LET flagged == SelectSeq(u[def].callees,
                             LAMBDA c : c.def_id # External
                                        /\ SccEdge(u, def, c.def_id))
    IN  [k \in DOMAIN flagged |-> Recursion(flagged[k].def_id, def)]

\* a call graph: up to MaxFns fns that are not const, up to MaxEdges calls
InitScc ==
    /\ \E n \in 1..MaxFns :
       \E E \in SubsetsUpTo((1..n) \X (1..n), MaxEdges) :
            unit = RecUnit(n, 0, [i \in 1..n |-> "NotConst"], E)
    /\ pc = "scc"
    /\ idx = 1
    /\ ret = "none"
    /\ errors = <<>>
    /\ pub_types = <<>>
    /\ sas = NoSas
    /\ content = NoContent
    /\ std_traits = {}
    /\ first = <<>>
    /\ shards = <<>>
    /\ FrontIdle

\* the calls of the next function are flagged by component membership
SccCheckFn ==
    /\ pc = "scc"
    /\ idx <= Len(definitions(unit))
    /\ errors' = errors \o scc_flagged(unit, definitions(unit)[idx])
    /\ idx' = idx + 1
    /\ UNCHANGED <<front, unit, std_traits, first, shards, pc, ret, pub_types, sas,
                   content>>

SccReturn ==
    /\ pc = "scc"
    /\ idx > Len(definitions(unit))
    /\ ret' = IF errors = <<>> THEN "Ok" ELSE "Err"
    /\ pc' = "scc_ret"
    /\ UNCHANGED <<front, unit, std_traits, first, shards, idx, errors, pub_types,
                   sas, content>>

NextScc == SccCheckFn \/ SccReturn

SpecScc == InitScc /\ [][NextScc]_vars

IsLoopy(e) == HasLoopOutsideConst(e) \/ HasForOutsideConst(e)

\* a closure that is not const, outside a const block or const closure,
\* whose body holds a loop or a desugared `for` outside such a context
RECURSIVE HasLoopyClosure(_)
HasLoopyClosure(e) ==
    \/ e.kind = "Closure" /\ e.constness = "NotConst" /\ IsLoopy(e.body)
    \/ ~IsConstContext(e) /\ \E c \in SubExprs(e) : HasLoopyClosure(c)

\* C21: once no_forbidden_loops has returned, the result is false whenever
\* a fn item that is not const holds a closure that is not const with a loop
\* or a desugared `for` in its body, and it is true when the body of every
\* fn item that is not const is a const closure or a const block.
C21_ClosureHandling ==
    pc = "loops_ret" =>
        /\ (\E i \in DOMAIN unit :
               NotConstFnItem(unit[i]) /\ HasLoopyClosure(unit[i].body))
              => ret = "false"
        /\ (\A i \in DOMAIN unit :
               NotConstFnItem(unit[i]) => IsConstContext(unit[i].body))
              => ret = "true"

\* C22: the list of type_ids holds an id exactly if its owner is a struct,
\* enum or union item whose visibility is directly public; the ids are in
\* item order, each once.
C22_DirectlyPublicAdts ==
    pc \in {"collect_from", "filter_not_in"} =>
        /\ \A id \in DOMAIN unit :
              contains(pub_types, id) <=>
                  /\ unit[id].node = "Item"
                  /\ unit[id].kind \in {"Struct", "Enum", "Union"}
                  /\ unit[id].vis = "Direct"
        /\ \A i, j \in DOMAIN pub_types : i < j => pub_types[i] < pub_types[j]

\* type_ids has returned two ids over a unit with a type that is visible
\* through a re-export only
C22_Witness ==
    /\ pc = "collect_from"
    /\ Len(pub_types) > 1
    /\ \E id \in DOMAIN unit :
          unit[id].kind = "Struct" /\ unit[id].vis = "Reexported"

(***************************************************************************)
(* Project context (permute_front/src/context.rs).                         *)
(*                                                                         *)
(* An IdentId is the position of an item in its list, counted from 1.  A   *)
(* Result is a record [tag, val]: tag "Ok" with the value, or the name of  *)
(* the error variant with its payload.  A HashMap is a function.           *)
(***************************************************************************)
MaxCalls == 5      \* calls made on one context

\* The state of the analyses, idle while the front end runs.
back == <<unit, pc, idx, ret, errors, pub_types, sas, content,
          std_traits, first, shards>>

BackIdle ==
    /\ unit = <<>>
    /\ pc = "idle"
    /\ idx = 1
    /\ ret = "none"
    /\ errors = <<>>
    /\ pub_types = <<>>
    /\ sas = NoSas
    /\ content = NoContent
    /\ std_traits = {}
    /\ first = <<>>
    /\ shards = <<>>

Ok(v) == [tag |-> "Ok", val |-> v]

Err(e, payload) == [tag |-> e, val |-> payload]

\* What a call leaves behind: the context and the value returned.
Returns(c, r) == [ctx |-> c, res |-> r]

Names == {"a", "b"}

Exprs == {"x", "y"}

ParamKey_new == <<>>

ParamKeys == {ParamKey_new, <<"k">>}

\* self.segments.join("::")
RECURSIVE join(_)
join(segments) ==
    IF Len(segments) = 0 THEN ""
    ELSE IF Len(segments) = 1 THEN segments[1]
    ELSE segments[1] \o "::" \o join(Tail(segments))

to_compact_string(item_path) == join(item_path.segments)

ItemPaths == {ItemPath(<<n>>) : n \in Names}

YamlItem(name) == [name |-> name, is_native |-> FALSE]

NativeItem(item_path) ==
    [name |-> to_compact_string(item_path), is_native |-> TRUE]

Binding(name, target) == [name |-> name, target |-> target]

EmptyMap == [x \in {} |-> "x"]

insert(map, key, value) ==
    [x \in DOMAIN map \cup {key} |-> IF x = key THEN value ELSE map[x]]

Ctx_new ==
    [srcs |-> <<>>, sinks |-> <<>>,
     srcs_bindings |-> <<>>, sinks_bindings |-> <<>>,
     sink_params |-> EmptyMap, src_filters |-> EmptyMap,
     pipes |-> <<>>]

\* list.iter().position(|s| s.name() == name)
name_position(list, name) ==
    LET hits == {i \in DOMAIN list : list[i].name = name}
    IN  IF hits = {} THEN <<>>
        ELSE <<CHOOSE i \in hits : \A j \in hits : i <= j>>

sink_id(c, sink) == name_position(c.sinks, sink)

source_id(c, src) == name_position(c.srcs, src)

add_source_unchecked(c, src) ==
    Returns([c EXCEPT !.srcs = Append(@, src)], Ok(<<>>))

add_source(c, src) ==
    IF source_id(c, src.name) # <<>>
    THEN Returns(c, Err("NameExists", src.name))
    ELSE Returns([c EXCEPT !.srcs = Append(@, src)], Ok(<<>>))

add_sink(c, sink) ==
    IF sink_id(c, sink.name) # <<>>
    THEN Returns(c, Err("NameExists", sink.name))
    ELSE Returns([c EXCEPT !.sinks = Append(@, sink)], Ok(<<>>))

add_native_sink(c, item_path) == add_sink(c, NativeItem(item_path))

add_native_source(c, item_path) == add_source(c, NativeItem(item_path))

add_pipe_or_default(c, src, sink) ==
    LET src_idx == source_id(c, src)
        sink_idx == sink_id(c, sink)
    IN  Returns([c EXCEPT !.pipes = Append(@,
                    <<IF src_idx = <<>> THEN 0 ELSE src_idx[1],
                      IF sink_idx = <<>> THEN 0 ELSE sink_idx[1]>>)],
                Ok(<<>>))

add_pipe(c, src, sink) ==
    LET src_idx == source_id(c, src)
        sink_idx == sink_id(c, sink)
    IN  IF src_idx = <<>> THEN Returns(c, Err("SourceNotFound", src))
        ELSE IF sink_idx = <<>> THEN Returns(c, Err("SinkNotFound", sink))
        ELSE Returns([c EXCEPT !.pipes = Append(@, <<src_idx[1], sink_idx[1]>>)],
                      Ok(<<>>))

\* self.pipes.iter().copied().map(|(src, sink)| (&self.srcs[src], &self.sinks[sink]))
\* An index outside its list makes the iteration panic.
pipes_in_bounds(c) ==
    \A i \in DOMAIN c.pipes :
        /\ c.pipes[i][1] \in DOMAIN c.srcs
        /\ c.pipes[i][2] \in DOMAIN c.sinks

pipes(c) == [i \in DOMAIN c.pipes |->
                <<c.srcs[c.pipes[i][1]], c.sinks[c.pipes[i][2]]>>]

\* bindings.iter().find(|b| b.name == name).map(|v| v.target)
binding_target(bindings, name) ==
    LET at == name_position(bindings, name)
    IN  IF at = <<>> THEN <<>> ELSE <<bindings[at[1]].target>>

yaml_source_binding(c, name) ==
    LET binding == binding_target(c.srcs_bindings, name)
    IN  IF binding # <<>> /\ c.srcs[binding[1]].is_native
        THEN Err("UnexpectedNative", name)
        ELSE Ok(binding)

yaml_sink_binding(c, name) ==
    LET binding == binding_target(c.sinks_bindings, name)
    IN  IF binding # <<>> /\ c.sinks[binding[1]].is_native
        THEN Err("UnexpectedNative", name)
        ELSE Ok(binding)

add_source_binding(c, name, src) ==
    LET src_idx == source_id(c, src)
        found == yaml_source_binding(c, name)
    IN  IF src_idx = <<>> THEN Returns(c, Err("NotFound", src))
        ELSE IF found.tag # "Ok" THEN Returns(c, Err("Native", name))
        ELSE IF found.val # <<>> THEN Returns(c, Err("NameExists", name))
        ELSE Returns([c EXCEPT !.srcs_bindings =
                                    Append(@, Binding(name, src_idx[1]))],
                      Ok(Len(c.srcs_bindings) + 1))

add_sink_binding(c, name, sink) ==
    LET sink_idx == sink_id(c, sink)
        found == yaml_sink_binding(c, name)
    IN  IF sink_idx = <<>> THEN Returns(c, Err("NotFound", sink))
        ELSE IF found.tag # "Ok" THEN Returns(c, Err("Native", name))
        ELSE IF found.val # <<>> THEN Returns(c, Err("NameExists", name))
        ELSE Returns([c EXCEPT !.sinks_bindings =
                                    Append(@, Binding(name, sink_idx[1]))],
                      Ok(Len(c.sinks_bindings) + 1))

add_binding(c, name, src_or_sink) ==
    IF sink_id(c, src_or_sink) # <<>>
    THEN add_sink_binding(c, name, src_or_sink)
    ELSE add_source_binding(c, name, src_or_sink)

add_sink_param(c, sink_binding_name, param_name, value) ==
    LET found == yaml_sink_binding(c, sink_binding_name)
    IN  IF found.tag # "Ok" THEN Returns(c, Err("Native", sink_binding_name))
        ELSE IF found.val = <<>>
        THEN Returns(c, Err("DestNotFound", sink_binding_name))
        ELSE LET sink_bind_idx == found.val[1]
                 entry == <<sink_bind_idx, param_name>>
             IN  IF entry \in DOMAIN c.sink_params
                 THEN Returns(c, Err("AlreadySet",
                                     <<param_name, c.sink_params[entry]>>))
                 ELSE Returns([c EXCEPT !.sink_params = insert(@, entry, value)],
                              Ok(<<>>))

add_src_filter(c, src_name, filter_name, value) ==
    LET found == yaml_source_binding(c, src_name)
    IN  IF found.tag # "Ok" THEN Returns(c, Err("Native", src_name))
        ELSE IF found.val = <<>>
        THEN Returns(c, Err("DestNotFound", src_name))
        ELSE LET src_bind_idx == found.val[1]
                 entry == <<src_bind_idx, filter_name>>
             IN  IF entry \in DOMAIN c.src_filters
                 THEN Returns(c, Err("AlreadySet",
                                     <<filter_name, c.src_filters[entry]>>))
                 ELSE Returns([c EXCEPT !.src_filters = insert(@, entry, value)],
                              Ok(<<>>))

add_param(c, sink_or_src_binding_name, param, value) ==
    IF sink_id(c, sink_or_src_binding_name) # <<>>
    THEN add_sink_param(c, sink_or_src_binding_name, param, value)
    ELSE add_src_filter(c, sink_or_src_binding_name, param, value)

add_native_init(c, sink_or_src_binding_name, expr) ==
    LET sink == sink_id(c, sink_or_src_binding_name)
        src == source_id(c, sink_or_src_binding_name)
    IN  IF sink # <<>>
        THEN IF c.sinks[sink[1]].is_native
             THEN Returns([c EXCEPT !.sink_params =
                               insert(@, <<sink[1], ParamKey_new>>, expr)],
                          Ok(<<>>))
             ELSE Returns(c, Err("ExpectNative", sink_or_src_binding_name))
        ELSE IF src # <<>>
        THEN IF c.srcs[src[1]].is_native
             THEN Returns([c EXCEPT !.src_filters =
                               insert(@, <<src[1], ParamKey_new>>, expr)],
                          Ok(<<>>))
             ELSE Returns(c, Err("ExpectNative", sink_or_src_binding_name))
        ELSE Returns(c, Err("DestNotFound", sink_or_src_binding_name))

(***************************************************************************)
(* SpecCtx: any sequence of at most MaxCalls calls on a new context.       *)
(***************************************************************************)
InitCtx ==
    /\ BackIdle
    /\ ctx = Ctx_new
    /\ result = [op |-> "new", args |-> <<>>, res |-> Ok(<<>>), calls |-> 0]
    /\ main = <<>>
    /\ load = <<>>
    /\ cfg = <<>>
    /\ iter = <<>>
    /\ yielded = <<>>

\* The call `op(args)` is made on the context and leaves `out`.
Call(op, args, out) ==
    /\ result.calls < MaxCalls
    /\ ctx' = out.ctx
    /\ result' = [op |-> op, args |-> args, res |-> out.res,
                  calls |-> result.calls + 1]
    /\ UNCHANGED <<back, main, load, cfg, iter, yielded>>

CtxAddSource ==
    \E n \in Names : Call("add_source", <<n>>, add_source(ctx, YamlItem(n)))

CtxAddSink ==
    \E n \in Names : Call("add_sink", <<n>>, add_sink(ctx, YamlItem(n)))

CtxAddNativeSource ==
    \E p \in ItemPaths :
        Call("add_native_source", <<to_compact_string(p)>>,
             add_native_source(ctx, p))

CtxAddNativeSink ==
    \E p \in ItemPaths :
        Call("add_native_sink", <<to_compact_string(p)>>,
             add_native_sink(ctx, p))

CtxAddPipe ==
    \E src, sink \in Names :
        Call("add_pipe", <<src, sink>>, add_pipe(ctx, src, sink))

CtxAddSourceBinding ==
    \E n, src \in Names :
        Call("add_source_binding", <<n, src>>, add_source_binding(ctx, n, src))

CtxAddSinkBinding ==
    \E n, sink \in Names :
        Call("add_sink_binding", <<n, sink>>, add_sink_binding(ctx, n, sink))

CtxAddBinding ==
    \E n, t \in Names :
        Call("add_binding", <<n, t>>, add_binding(ctx, n, t))

CtxAddSinkParam ==
    \E n \in Names, k \in ParamKeys, v \in Exprs :
        Call("add_sink_param", <<n, k, v>>, add_sink_param(ctx, n, k, v))

CtxAddSrcFilter ==
    \E n \in Names, k \in ParamKeys, v \in Exprs :
        Call("add_src_filter", <<n, k, v>>, add_src_filter(ctx, n, k, v))

CtxAddParam ==
    \E n \in Names, k \in ParamKeys, v \in Exprs :
        Call("add_param", <<n, k, v>>, add_param(ctx, n, k, v))

CtxAddNativeInit ==
    \E n \in Names, v \in Exprs :
        Call("add_native_init", <<n, v>>, add_native_init(ctx, n, v))

NextCtx ==
    \/ CtxAddSource \/ CtxAddSink \/ CtxAddNativeSource \/ CtxAddNativeSink
    \/ CtxAddPipe
    \/ CtxAddSourceBinding \/ CtxAddSinkBinding \/ CtxAddBinding
    \/ CtxAddSinkParam \/ CtxAddSrcFilter \/ CtxAddParam
    \/ CtxAddNativeInit

SpecCtx == InitCtx /\ [][NextCtx]_vars

(***************************************************************************)
(* Claims about the project context                                        *)
(***************************************************************************)
distinct_names(list) ==
    \A i, j \in DOMAIN list : list[i].name = list[j].name => i = j

\* C23: in every state reached from Ctx::new the names of the registered
\* sources are pairwise distinct and so are the names of the registered
\* sinks; add_source, add_sink, add_native_source or add_native_sink of a
\* name already registered in the same list returns NameExists and leaves
\* the whole context unchanged.
C23_NamesDistinct ==
    [][ /\ distinct_names(ctx'.srcs)
        /\ distinct_names(ctx'.sinks)
        /\ ( /\ result'.op \in {"add_source", "add_native_source"}
             /\ source_id(ctx, result'.args[1]) # <<>> )
               => result'.res.tag = "NameExists" /\ ctx' = ctx
        /\ ( /\ result'.op \in {"add_sink", "add_native_sink"}
             /\ sink_id(ctx, result'.args[1]) # <<>> )
               => result'.res.tag = "NameExists" /\ ctx' = ctx
      ]_vars

C23_Witness ==
    /\ Len(ctx.sinks) = 2
    /\ Len(ctx.srcs) = 2
    /\ result.op = "add_native_sink"
    /\ result.res.tag = "NameExists"

\* C24: after any successful add_pipe every pipe stored in Ctx.pipes is a
\* pair of valid indexes into srcs_bindings and sinks_bindings.
C24_PipesIndexBindings ==
    (result.op = "add_pipe" /\ result.res.tag = "Ok") =>
        \A i \in DOMAIN ctx.pipes :
            /\ ctx.pipes[i][1] \in DOMAIN ctx.srcs_bindings
            /\ ctx.pipes[i][2] \in DOMAIN ctx.sinks_bindings

native_init(c, name) ==
    LET sink == sink_id(c, name)
        src == source_id(c, name)
    IN  IF sink # <<>>
        THEN IF c.sinks[sink[1]].is_native
                /\ <<sink[1], ParamKey_new>> \in DOMAIN c.sink_params
             THEN <<c.sink_params[<<sink[1], ParamKey_new>>]>> ELSE <<>>
        ELSE IF src # <<>>
        THEN IF c.srcs[src[1]].is_native
                /\ <<src[1], ParamKey_new>> \in DOMAIN c.src_filters
             THEN <<c.src_filters[<<src[1], ParamKey_new>>]>> ELSE <<>>
        ELSE <<>>

is_yaml_item(c, name) ==
    LET sink == sink_id(c, name)
        src == source_id(c, name)
    IN  IF sink # <<>> THEN ~c.sinks[sink[1]].is_native
        ELSE src # <<>> /\ ~c.srcs[src[1]].is_native

\* C26: add_native_init on a native item that already has an initializer
\* returns AlreadySet and keeps the first initializer; on an item of YAML
\* origin it returns ExpectNative and on an unknown name DestNotFound, in
\* both cases leaving sink_params and src_filters unchanged.
C26_InitSetOnce ==
    [][ result'.op = "add_native_init" =>
          LET name == result'.args[1]
              same == /\ ctx'.sink_params = ctx.sink_params
                      /\ ctx'.src_filters = ctx.src_filters
          IN  /\ native_init(ctx, name) # <<>>
                    => result'.res.tag = "AlreadySet" /\ same
              /\ is_yaml_item(ctx, name)
                    => result'.res.tag = "ExpectNative" /\ same
              /\ (sink_id(ctx, name) = <<>> /\ source_id(ctx, name) = <<>>)
                    => result'.res.tag = "DestNotFound" /\ same
      ]_vars

\* The value of parameter `key` seen through the sink binding `name`.
sink_param_of(c, name, key) ==
    LET found == yaml_sink_binding(c, name)
    IN  IF found.tag = "Ok" /\ found.val # <<>>
           /\ <<found.val[1], key>> \in DOMAIN c.sink_params
        THEN <<c.sink_params[<<found.val[1], key>>]>>
        ELSE <<>>

\* The value of filter `key` seen through the source binding `name`.
src_filter_of(c, name, key) ==
    LET found == yaml_source_binding(c, name)
    IN  IF found.tag = "Ok" /\ found.val # <<>>
           /\ <<found.val[1], key>> \in DOMAIN c.src_filters
        THEN <<c.src_filters[<<found.val[1], key>>]>>
        ELSE <<>>

\* C27: parameter values are scoped to the binding they are set on: a
\* successful add_sink_param(b', k, v) changes, for no other binding b, the
\* value of any key seen through b (so a later add_sink_param(b, k, _) is not
\* made to fail with AlreadySet); the same for add_src_filter and source
\* bindings.
C27_ParamsScopedToBinding ==
    [][ /\ (result'.op = "add_sink_param" /\ result'.res.tag = "Ok") =>
              \A b \in Names \ {result'.args[1]}, k \in ParamKeys :
                  sink_param_of(ctx', b, k) = sink_param_of(ctx, b, k)
        /\ (result'.op = "add_src_filter" /\ result'.res.tag = "Ok") =>
              \A b \in Names \ {result'.args[1]}, k \in ParamKeys :
                  src_filter_of(ctx', b, k) = src_filter_of(ctx, b, k)
      ]_vars

is_yaml_sink_binding(c, name) ==
    LET found == yaml_sink_binding(c, name)
    IN  found.tag = "Ok" /\ found.val # <<>>

is_yaml_source_binding(c, name) ==
    LET found == yaml_source_binding(c, name)
    IN  found.tag = "Ok" /\ found.val # <<>>

\* C28: add_param(name, key, value) has exactly the effect and result of
\* add_sink_param(name, key, value) when name is an existing YAML sink
\* binding, and of add_src_filter(name, key, value) when name is an existing
\* YAML source binding, whatever the names of the sinks and sources are.
C28_AddParamRoutesByBinding ==
    [][ result'.op = "add_param" =>
          LET name == result'.args[1]
              key == result'.args[2]
              value == result'.args[3]
              got == Returns(ctx', result'.res)
          IN  /\ ( /\ is_yaml_sink_binding(ctx, name)
                   /\ ~is_yaml_source_binding(ctx, name) )
                    => got = add_sink_param(ctx, name, key, value)
              /\ ( /\ is_yaml_source_binding(ctx, name)
                   /\ ~is_yaml_sink_binding(ctx, name) )
                    => got = add_src_filter(ctx, name, key, value)
      ]_vars

(***************************************************************************)
(* BindingCfgIter (permute_front/src/yaml/load.rs).                        *)
(*                                                                         *)
(* A HashMap of the configuration is the sequence of its entries in the    *)
(* order its iterator visits them; every order is considered.              *)
(***************************************************************************)
MaxCfgEntries == 4     \* entries of a binding configuration, nested ones included

CfgKeys == {"k", "m"}

Value(v) == [kind |-> "Value", v |-> v]

List(list) == [kind |-> "List", list |-> list]

MapField(map) == [kind |-> "Map", map |-> map]

Inline(v) == [kind |-> "Inline", v |-> v]

MapCfg(map) == [kind |-> "Map", map |-> map]

Entry(key, field) == [key |-> key, field |-> field]

keys(map) == {map[i].key : i \in DOMAIN map}

\* The maps of at most n entries in all, each map with distinct keys.
RECURSIVE Maps(_)
Maps(n) ==
    IF n = 0 THEN {<<>>}
    ELSE {<<>>} \cup UNION { UNION {
            { <<Entry(k, f)>> \o rest :
                  f \in {Value("x"), List(<<"x", "y">>)}
                            \cup {MapField(m) : m \in Maps(a)},
                  rest \in {r \in Maps(n - 1 - a) : k \notin keys(r)} }
            : k \in CfgKeys } : a \in 0..(n - 1) }

\* The configurations of at most n entries.
BindingCfgs(n) == {Inline(v) : v \in Exprs} \cup {MapCfg(m) : m \in Maps(n)}

\* syn::parse_str::<syn::Expr>(s)
str_to_expr(s) == [expr |-> "Parsed", tokens |-> s]

\* quote! { &[#(#iter),*] }
list_to_expr(vec) ==
    [expr |-> "Reference", elems |-> [i \in DOMAIN vec |-> str_to_expr(vec[i])]]

\* map.iter(): the entries not visited yet
map_iter(map) == map

BindingCfgIter_new(c) ==
    IF c.kind = "Inline"
    THEN [prefix |-> ParamKey_new, iter_stack |-> <<>>, inline |-> <<c.v>>]
    ELSE [prefix |-> ParamKey_new, iter_stack |-> <<map_iter(c.map)>>,
          inline |-> <<>>]

DropLast(s) == SubSeq(s, 1, Len(s) - 1)

pop_stack_keeps_prefix(it) ==
    IF it.iter_stack # <<>>
    THEN [iter |-> [it EXCEPT !.iter_stack = DropLast(@)], panicked |-> FALSE]
    ELSE [iter |-> it, panicked |-> FALSE]

pop_stack(it) ==
    IF it.iter_stack # <<>>
    THEN LET popped == [it EXCEPT !.iter_stack = DropLast(@)]
         IN  IF it.prefix # <<>>
             THEN [iter |-> [popped EXCEPT !.prefix = DropLast(@)],
                   panicked |-> FALSE]
             ELSE [iter |-> popped, panicked |-> popped.iter_stack # <<>>]
    ELSE [iter |-> it, panicked |-> FALSE]

push_stack(it, inner, prefix) ==
    [it EXCEPT !.iter_stack = Append(@, inner), !.prefix = Append(@, prefix)]

Item(key, expr) == [key |-> key, expr |-> expr]

\* What a call of next leaves: the iterator, the Option returned, and
\* whether the assertion of pop_stack failed.
NextResult(it, item, panicked) == [iter |-> it, item |-> item, panicked |-> panicked]

\* The `loop` of next.
RECURSIVE next_loop(_)
next_loop(it) ==
    IF it.iter_stack = <<>> THEN NextResult(it, <<>>, FALSE)
    ELSE LET top == Len(it.iter_stack)
             head_iter == it.iter_stack[top]
         IN  IF head_iter # <<>>
             THEN LET key == Head(head_iter).key
                      value == Head(head_iter).field
                      rest == [it EXCEPT !.iter_stack[top] = Tail(head_iter)]
                  IN  CASE value.kind = "Value" ->
                             NextResult(rest, <<Item(Append(it.prefix, key),
                                               str_to_expr(value.v))>>, FALSE)
                        [] value.kind = "List" ->
                             NextResult(rest, <<Item(Append(it.prefix, key),
                                               list_to_expr(value.list))>>, FALSE)
                        [] value.kind = "Map" ->
                             next_loop(push_stack(rest, map_iter(value.map), key))
             ELSE LET popped == pop_stack(it)
                  IN  IF popped.panicked THEN NextResult(popped.iter, <<>>, TRUE)
                      ELSE next_loop(popped.iter)

next(it) ==
    IF it.inline # <<>>
    THEN NextResult([it EXCEPT !.inline = <<>>],
              <<Item(it.prefix, str_to_expr(it.inline[1]))>>, FALSE)
    ELSE next_loop(it)

(***************************************************************************)
(* SpecCfgIter: `for (key, value) in BindingCfgIter::new(cfg)` over every  *)
(* configuration of at most MaxCfgEntries entries.                         *)
(***************************************************************************)
InitCfgIter ==
    /\ BackIdle
    /\ ctx = <<>>
    /\ result = <<>>
    /\ main = <<>>
    /\ cfg \in BindingCfgs(MaxCfgEntries)
    /\ iter = BindingCfgIter_new(cfg)
    /\ yielded = <<>>
    /\ load = [pc |-> "for"]

\* next returns Some(item): one pass of the loop body.
IterNextItem ==
    /\ load.pc = "for"
    /\ next(iter).item # <<>>
    /\ iter' = next(iter).iter
    /\ yielded' = Append(yielded, next(iter).item[1])
    /\ UNCHANGED <<back, ctx, result, main, cfg, load>>

\* next returns None, or the assertion of pop_stack fails: the loop ends.
IterNextEnd ==
    /\ load.pc = "for"
    /\ next(iter).item = <<>>
    /\ iter' = next(iter).iter
    /\ load' = [pc |-> IF next(iter).panicked THEN "panic" ELSE "end"]
    /\ UNCHANGED <<back, ctx, result, main, cfg, yielded>>

NextCfgIter == IterNextItem \/ IterNextEnd

SpecCfgIter == InitCfgIter /\ [][NextCfgIter]_vars

\* The key paths from the root of a map to its Value and List fields.
RECURSIVE leaf_paths(_)
leaf_paths(map) ==
    UNION { IF map[i].field.kind = "Map"
            THEN {<<map[i].key>> \o p : p \in leaf_paths(map[i].field.map)}
            ELSE {<<map[i].key>>}
            : i \in DOMAIN map }

\* The field a key path leads to.
RECURSIVE field_at(_, _)
field_at(map, path) ==
    LET i == CHOOSE j \in DOMAIN map : map[j].key = Head(path)
    IN  IF Len(path) = 1 THEN map[i].field
        ELSE field_at(map[i].field.map, Tail(path))

leaf_expr(field) ==
    IF field.kind = "Value" THEN str_to_expr(field.v)
    ELSE list_to_expr(field.list)

\* The items a configuration holds: one per leaf, or the one inline value.
cfg_items(c) ==
    IF c.kind = "Inline" THEN {Item(ParamKey_new, str_to_expr(c.v))}
    ELSE {Item(p, leaf_expr(field_at(c.map, p))) : p \in leaf_paths(c.map)}

MaxBindings == 1       \* bindings of the main file
MaxLoadEntries == 2    \* entries of the configuration of one binding

MainBinding(name, ty, c) == [name |-> name, ty |-> ty, cfg |-> c]

\* hir::MainBinding::ty_str
ty_str(binding) == binding.ty

\* Main::bindings(): a HashMap keyed by the identifier of the binding, in
\* the order its iterator visits it.
Mains(n) ==
    UNION { { [i \in 1..Len(names) |-> MainBinding(names[i], tys[i], cfgs[i])] :
                  tys \in [1..Len(names) -> Names],
                  cfgs \in [1..Len(names) -> BindingCfgs(MaxLoadEntries)] }
            : names \in DistinctSeqs(Names, n) }

\* for sink in sinks { if let Err(e) = ctx.add_sink(sink) { errors.push(e) } }
RECURSIVE add_sinks(_, _, _)
add_sinks(c, errs, sinks) ==
    IF sinks = <<>> THEN [ctx |-> c, errors |-> errs]
    ELSE LET out == add_sink(c, YamlItem(Head(sinks)))
         IN  add_sinks(out.ctx,
                       IF out.res.tag = "Ok" THEN errs ELSE Append(errs, out.res),
                       Tail(sinks))

\* for src in srcs { if let Err(e) = ctx.add_source(src) { errors.push(e) } }
RECURSIVE add_sources(_, _, _)
add_sources(c, errs, srcs) ==
    IF srcs = <<>> THEN [ctx |-> c, errors |-> errs]
    ELSE LET out == add_source(c, YamlItem(Head(srcs)))
         IN  add_sources(out.ctx,
                         IF out.res.tag = "Ok" THEN errs ELSE Append(errs, out.res),
                         Tail(srcs))

\* The body of the loop over the configuration entries of one binding.
binding_entry(c, errs, name, ty, key, value) ==
    LET bound == add_binding(c, name, ty)
    IN  IF bound.res.tag # "Ok"
        THEN [ctx |-> bound.ctx, errors |-> Append(errs, bound.res)]
        ELSE LET set == add_param(bound.ctx, name, key, value)
             IN  [ctx |-> set.ctx,
                  errors |-> IF set.res.tag = "Ok" THEN errs
                             ELSE Append(errs, set.res)]

\* BindingCfgIter::new(cfg.cfg()) of the binding at position bi, if any
iter_of(bi) ==
    IF bi \in DOMAIN main THEN BindingCfgIter_new(main[bi].cfg) ELSE <<>>

InitLoad ==
    /\ BackIdle
    /\ ctx = Ctx_new
    /\ result = <<>>
    /\ main \in Mains(MaxBindings)
    /\ \E sinks, srcs \in DistinctSeqs(Names, Cardinality(Names)) :
          /\ Range(sinks) \cap Range(srcs) = {}
          /\ load = [pc |-> "add_sinks", sinks |-> sinks, srcs |-> srcs,
                     bi |-> 1, errors |-> <<>>, ret |-> "none"]
    /\ cfg = <<>>
    /\ iter = <<>>
    /\ yielded = <<>>

LoadAddSinks ==
    /\ load.pc = "add_sinks"
    /\ LET out == add_sinks(ctx, load.errors, load.sinks)
       IN  /\ ctx' = out.ctx
           /\ load' = [load EXCEPT !.pc = "add_sources", !.errors = out.errors]
    /\ UNCHANGED <<back, result, main, cfg, iter, yielded>>

LoadAddSources ==
    /\ load.pc = "add_sources"
    /\ LET out == add_sources(ctx, load.errors, load.srcs)
       IN  /\ ctx' = out.ctx
           /\ load' = [load EXCEPT !.pc = "bindings", !.errors = out.errors]
    /\ iter' = iter_of(1)
    /\ UNCHANGED <<back, result, main, cfg, yielded>>

\* The iterator of the current binding returns an entry.
LoadBindingEntry ==
    /\ load.pc = "bindings"
    /\ load.bi \in DOMAIN main
    /\ next(iter).item # <<>>
    /\ LET item == next(iter).item[1]
           out == binding_entry(ctx, load.errors, main[load.bi].name,
                                ty_str(main[load.bi]), item.key, item.expr)
       IN  /\ ctx' = out.ctx
           /\ load' = [load EXCEPT !.errors = out.errors]
    /\ iter' = next(iter).iter
    /\ UNCHANGED <<back, result, main, cfg, yielded>>

\* The iterator of the current binding is exhausted: the next binding.
LoadBindingEnd ==
    /\ load.pc = "bindings"
    /\ load.bi \in DOMAIN main
    /\ next(iter).item = <<>>
    /\ load' = [load EXCEPT !.bi = @ + 1,
                            !.pc = IF next(iter).panicked THEN "panic" ELSE @]
    /\ iter' = iter_of(load.bi + 1)
    /\ UNCHANGED <<back, ctx, result, main, cfg, yielded>>

LoadReturn ==
    /\ load.pc = "bindings"
    /\ load.bi \notin DOMAIN main
    /\ load' = [load EXCEPT !.pc = "ret",
                            !.ret = IF load.errors = <<>> THEN "Ok" ELSE "Err"]
    /\ UNCHANGED <<back, ctx, result, main, cfg, iter, yielded>>

NextLoad ==
    \/ LoadAddSinks \/ LoadAddSources
    \/ LoadBindingEntry \/ LoadBindingEnd \/ LoadReturn

SpecLoad == InitLoad /\ [][NextLoad]_vars

is_registered(c, name) ==
    \/ binding_target(c.sinks_bindings, name) # <<>>
    \/ binding_target(c.srcs_bindings, name) # <<>>

\* C29: LoadProjectDir::run registers each binding of the main file exactly
\* once and then adds every one of its configuration entries as a parameter:
\* no NameExists error is collected, whatever the number of entries of a
\* configuration, and in the context returned every binding of the main file
\* is registered, one with an empty configuration map included, and holds
\* every entry of its configuration.
C29_BindingsRegisteredOnce ==
    load.pc = "ret" =>
        /\ \A i \in DOMAIN load.errors : load.errors[i].tag # "NameExists"
        /\ load.ret = "Ok" =>
              \A b \in DOMAIN main :
                  /\ is_registered(ctx, main[b].name)
                  /\ \A item \in cfg_items(main[b].cfg) :
                        <<item.expr>> \in
                            { sink_param_of(ctx, main[b].name, item.key),
                              src_filter_of(ctx, main[b].name, item.key) }

====
